---- MODULE Spec2Model ----
(***************************************************************************)
(* Model of the Monero Sybil Hunter crawl / ingest pipeline.               *)
(*                                                                         *)
(*   Spec      : one run of run_crawler (main.py): MoneroCrawler.start,    *)
(*               its worker tasks, StorageManager.add_node/flush_buffer,   *)
(*               the final flush and close of the orchestrator.  All code  *)
(*               runs on one asyncio loop: a step of the model is the code *)
(*               a task executes between two awaits.                       *)
(*   SpecStore : one StorageManager and one DataEnricher working on the    *)
(*               nodes table in any order (add_node, flush_buffer,         *)
(*               reset_db, resolve_ip), events drawn from small sets.      *)
(*   SpecLive  : Spec on short target lists with weak fairness of the      *)
(*               deadline of start and of the steps of run_crawler.        *)
(*   SpecDetect: NetworkAnalyzer.detect_sybils run on generated tables.    *)
(*   SpecPipe  : main_pipeline: STEP 1 (seed data or run_crawler), STEP 2  *)
(*               (run_enrichment), STEP 3 (run_forensics_check).           *)
(*   SpecResolve: Spec with the GeoIPHandler in any of the states its      *)
(*               initialize can leave it in (utils.py).                    *)
(*   SpecLoad  : MoneroCrawler.load_from_file on generated files.          *)
(*                                                                         *)
(* The database is PostgreSQL behind asyncpg: executemany runs the query   *)
(* once per argument tuple inside one transaction, so a batch is written   *)
(* in one step or not at all, and NOW() is the clock value of that step.   *)
(* Task.cancel() marks a task; the CancelledError is raised in the task    *)
(* when the loop next runs it, at the await it is suspended in.            *)
(***************************************************************************)
EXTENDS Integers, Sequences, FiniteSets, TLC

\* ------------------------------------------------------------------ bounds
\* number of worker tasks (concurrency=50 in main.py, scaled down)
NumWorkers == 2
\* number of targets load_from_file puts on the queue
MaxTargets == 3
\* StorageManager.BATCH_SIZE (50 in storage.py), scaled down
BATCH_SIZE == 2
\* SpecStore: number of database writes explored
MaxClock == 3
\* longest target list of the runs checked for termination
LiveTargets == 2
\* SpecPipe: number of targets load_from_file puts on the queue
PipeTargets == 2
\* SpecResolve: number of targets load_from_file puts on the queue
ResolveTargets == 1
\* SpecLoad: number of lines of targets.txt
MaxFileLines == 2
\* SpecDetect: largest organization of the generated tables
MaxGroup == 12
\* SpecDetect: number of detect_sybils runs in a row
MaxRuns == 2

\* ------------------------------------------------------------ value domains
Hosts == {"10.0.0.1", "10.0.0.2", "10.0.0.3"}
DEFAULT_PORT == 18080
Ports == {DEFAULT_PORT, 18081}
\* one host is listed under both ports, the others under the default port
Targets == { <<h, p>> \in Hosts \X Ports : h = "10.0.0.1" \/ p = DEFAULT_PORT }

Workers == 1..NumWorkers
Main == 0
Procs == Workers \cup {Main}

NoTarget == <<"", 0>>

\* placeholders of the resolver and of add_node's defaults
UNKNOWN_ISP == "Unknown ISP"
UNKNOWN_COUNTRY == "XX"

VARIABLES
    queue,        \* asyncio.Queue of (ip, port) targets
    unfinished,   \* asyncio.Queue._unfinished_tasks (what join() waits on)
    seen_ips,     \* MoneroCrawler.seen_ips
    active,       \* MoneroCrawler.active
    wpc,          \* position of each worker task
    cur,          \* target a worker has dequeued and not yet acknowledged
    cancelReq,    \* Task.cancel() requested for the worker, not yet delivered
    spc,          \* position of MoneroCrawler.start
    exitReason,   \* how start left wait_for(queue.join())
    startCancel,  \* Task.cancel() requested for the crawler task
    shutdown,     \* shutdown_event of main_pipeline
    mpc,          \* position of run_crawler
    node_buffer,  \* StorageManager.node_buffer
    fpc,          \* position of each task inside flush_buffer
    ref,          \* does the list handed to executemany still equal node_buffer
    batch,        \* rows executemany has read from that list
    nodes,        \* the nodes table
    clock,        \* the database's NOW()
    \* ---- history variables (not program state)
    enqueued, dequeued, acked, scans, accepted, flushedIps, lastWrite,
    lastEvent, recommitted, enriched,
    \* ---- NetworkAnalyzer.detect_sybils
    alerts,       \* the groups the last run printed, in the order printed
    prevAlerts,   \* the groups the run before it printed (history)
    drun,         \* number of detect_sybils runs completed (history)
    derr,         \* the exception the last run raised, "none" if it returned
    \* ---- main_pipeline
    ppc,          \* position of main_pipeline
    mode,         \* the command line: "scan", "mock" or "skip_scan"
    phases,       \* the phases started so far (history)
    todo,         \* enrich_data: the selected ips not yet resolved
    \* ---- utils.GeoIPHandler
    geoip,        \* the singleton after initialize()
    \* ---- targets.txt
    file_lines    \* the lines load_from_file has still to read

vars == << queue, unfinished, seen_ips, active, wpc, cur, cancelReq, spc,
           exitReason, startCancel, shutdown, mpc, node_buffer, fpc, ref,
           batch, nodes, clock,
           enqueued, dequeued, acked, scans, accepted, flushedIps, lastWrite,
           lastEvent, recommitted, enriched,
           alerts, prevAlerts, drun, derr, ppc, mode, phases, todo,
           geoip, file_lines >>

crawlVars == << queue, unfinished, seen_ips, active, wpc, cur, cancelReq, spc,
                exitReason, startCancel, shutdown, mpc, enqueued, dequeued,
                acked, scans >>
flushVars == << fpc, ref, batch >>
storeHist == << flushedIps, lastWrite, lastEvent, recommitted, enriched >>
detVars == << alerts, prevAlerts, drun, derr >>
pipeVars == << ppc, mode, phases, todo >>

\* ---------------------------------------------------------------- helpers
IsPrefix(s, t) == Len(s) <= Len(t) /\ \A i \in 1..Len(s) : s[i] = t[i]

SeqsUpTo(S, n) == UNION { [1..k -> S] : k \in 0..n }

Ips(T) == { r.ip : r \in T }

BufIps(buf) == { buf[i].ip : i \in 1..Len(buf) }

\* ----------------------------------------------------------- the resolver
\* ------------------------------------------------ utils.GeoIPHandler
MOCK_COUNTRIES == << "FR", "NL", "RU", "SG", "JP", "GB", "CA", "BR", "AU", "IN" >>
MOCK_ASNS ==
    << "AS16509 (Amazon.com)", "AS13335 (Cloudflare, Inc.)",
       "AS7922 (Comcast Cable)", "AS20473 (Choopa, LLC)",
       "AS3320 (Deutsche Telekom AG)", "AS1239 (Sprint)" >>
SYBIL_PROFILES ==
    << [asn |-> "AS14061 (DigitalOcean, LLC)", country |-> "US"],
       [asn |-> "AS24940 (Hetzner Online GmbH)", country |-> "DE"],
       [asn |-> "AS45102 (Alibaba Cloud)", country |-> "CN"],
       [asn |-> "AS9009 (M247 Ltd)", country |-> "RO"] >>

\* ord(c) of the characters of an ip: '0' is 48, '.' is 46
IpCodes(ip) ==
    IF ip = "10.0.0.1" THEN << 49, 48, 46, 48, 46, 48, 46, 49 >>
    ELSE IF ip = "10.0.0.2" THEN << 49, 48, 46, 48, 46, 48, 46, 50 >>
    ELSE << 49, 48, 46, 48, 46, 48, 46, 51 >>

RECURSIVE SumSeq(_)
SumSeq(q) == IF q = << >> THEN 0 ELSE Head(q) + SumSeq(Tail(q))

\* seed = sum(ord(c) for c in ip)
Seed(ip) == SumSeq(IpCodes(ip))

\* initialize(): USE_MOCK from the environment, the two GeoLite2 readers
\* (loaded only when not mock and the file opens), one threat profile picked
\* at random, and the fall back to mock when both readers are missing
initialize(env_mock, city_ok, asn_ok, profile) ==
    LET city == ~env_mock /\ city_ok
        asn == ~env_mock /\ asn_ok
    IN  [ use_mock |-> env_mock \/ (~city /\ ~asn),
          city_reader |-> city, asn_reader |-> asn,
          threat_profile |-> SYBIL_PROFILES[profile] ]

\* every handler initialize() can leave
Handlers ==
    { initialize(m, c, a, k) :
        m \in BOOLEAN, c \in BOOLEAN, a \in BOOLEAN, k \in DOMAIN SYBIL_PROFILES }

\* the handler of a host with both databases in place
LoadedHandler == initialize(FALSE, TRUE, TRUE, 1)

\* asn_reader.asn(ip): the organization on record, or "raises" for an
\* address the database does not hold
AsnLookup(ip) ==
    IF ip = "10.0.0.1" THEN "AS16509 (Amazon.com)"
    ELSE IF ip = "10.0.0.2" THEN "raises"
    ELSE "AS7922 (Comcast Cable)"

\* city_reader.city(ip).country.iso_code, or "raises"
CityLookup(ip) ==
    IF ip = "10.0.0.1" THEN "FR"
    ELSE IF ip = "10.0.0.2" THEN "raises"
    ELSE "NL"

\* GeoIPHandler.get_asn
get_asn(g, ip) ==
    IF g.use_mock \/ ~g.asn_reader
    THEN IF Seed(ip) % 3 = 0 THEN g.threat_profile.asn
         ELSE MOCK_ASNS[(Seed(ip) % Len(MOCK_ASNS)) + 1]
    ELSE IF AsnLookup(ip) = "raises" THEN UNKNOWN_ISP ELSE AsnLookup(ip)

\* GeoIPHandler.get_country
get_country(g, ip) ==
    IF g.use_mock \/ ~g.city_reader
    THEN IF Seed(ip) % 3 = 0 THEN g.threat_profile.country
         ELSE MOCK_COUNTRIES[(Seed(ip) % Len(MOCK_COUNTRIES)) + 1]
    ELSE IF CityLookup(ip) = "raises" THEN UNKNOWN_COUNTRY ELSE CityLookup(ip)

\* the exported functions: the call on the singleton
get_asn_data(ip) == get_asn(geoip, ip)

get_geoip_data(ip) == get_country(geoip, ip)

\* scan_node's node_data, as the tuple add_node appends
NodeData(ip, port) ==
    [ ip |-> ip, port |-> port, version |-> 1,
      user_agent |-> "Monero/0.18.0.0",
      asn |-> get_asn_data(ip), isp |-> get_asn_data(ip),
      country |-> get_geoip_data(ip) ]

\* ------------------------------------------------------- the upsert query
\* INSERT ... VALUES ($1..$7, NOW())
InsertRow(e, t) ==
    [ ip |-> e.ip, port |-> e.port, protocol_version |-> e.version,
      user_agent |-> e.user_agent, asn |-> e.asn, isp_name |-> e.isp,
      country_code |-> e.country, last_seen |-> t ]

\* ConflictUpdate without the refresh of last_seen
ConflictUpdate_NoTouch(r, e, t) ==
    [ r EXCEPT !.protocol_version = e.version,
               !.user_agent = e.user_agent,
               !.asn = e.asn,
               !.isp_name = e.isp ]

\* ConflictUpdate with asn set from the row's own isp_name column (the
\* EXCLUDED qualifier left out on a mixed-up column)
ConflictUpdate_Mixed(r, e, t) ==
    [ r EXCEPT !.last_seen = t,
               !.protocol_version = e.version,
               !.user_agent = e.user_agent,
               !.asn = r.isp_name,
               !.isp_name = e.isp ]

\* ConflictUpdate with every column taken from the new event
ConflictUpdate_AllColumns(r, e, t) ==
    [ r EXCEPT !.port = e.port,
               !.country_code = e.country,
               !.last_seen = t,
               !.protocol_version = e.version,
               !.user_agent = e.user_agent,
               !.asn = e.asn,
               !.isp_name = e.isp ]

\* ON CONFLICT (ip) DO UPDATE SET ...
ConflictUpdate(r, e, t) ==
    [ r EXCEPT !.last_seen = t,
               !.protocol_version = e.version,
               !.user_agent = e.user_agent,
               !.asn = e.asn,
               !.isp_name = e.isp ]

\* Upsert as a plain INSERT, without the conflict clause
Upsert_InsertOnly(T, e, t) == T \cup { InsertRow(e, t) }

\* one execution of the query for one argument tuple
Upsert(T, e, t) ==
    IF e.ip \in Ips(T)
    THEN { IF r.ip = e.ip THEN ConflictUpdate(r, e, t) ELSE r : r \in T }
    ELSE T \cup { InsertRow(e, t) }

\* executemany: the query once per tuple, in list order, in one transaction
RECURSIVE ExecuteMany(_, _, _)
ExecuteMany(T, b, t) ==
    IF b = << >> THEN T
    ELSE ExecuteMany(Upsert(T, Head(b), t), Tail(b), t)

\* ---- history of the committed batches, kept apart from the table
NoEvent == [ ip |-> "" ]

\* last write time per ip after a committed batch
Stamp(lw, b, t) == [ ip \in Hosts |-> IF ip \in BufIps(b) THEN t ELSE lw[ip] ]

\* last committed event per ip after a committed batch
LastOf(le, b) ==
    [ ip \in Hosts |->
        IF ip \in BufIps(b)
        THEN b[CHOOSE i \in 1..Len(b) :
                 b[i].ip = ip /\ \A j \in (i+1)..Len(b) : b[j].ip # ip]
        ELSE le[ip] ]

\* the batch repeats, event for event, what was committed last for its ips
Repeats(le, b) == b # << >> /\ \A i \in 1..Len(b) : le[b[i].ip] = b[i]

\* the history after batch b was committed at time t
Committed(b, t) ==
    /\ flushedIps' = flushedIps \cup BufIps(b)
    /\ lastWrite' = Stamp(lastWrite, b, t)
    /\ lastEvent' = LastOf(lastEvent, b)
    /\ recommitted' = (recommitted \/ Repeats(lastEvent, b))

\* The crawler treats all hosts alike, so the target lists are taken up to
\* renaming of hosts: a host is first listed after every host before it.
HostRank(h) == IF h = "10.0.0.1" THEN 1 ELSE IF h = "10.0.0.2" THEN 2 ELSE 3

Canonical(q) ==
    \A i \in 1..Len(q) :
      HostRank(q[i][1]) <= 1 + Cardinality({ q[j][1] : j \in 1..(i-1) })

\* ------------------------------------------------------------------- Init
\* The state of run_crawler after connect() and reset_db(), with start about
\* to wait on queue.join(): load_from_file has enqueued the targets and the
\* worker tasks have been created.
Init ==
    /\ queue \in SeqsUpTo(Targets, MaxTargets)
    /\ Canonical(queue)
    /\ unfinished = Len(queue)
    /\ seen_ips = {}
    /\ active = TRUE
    /\ wpc = [w \in Workers |-> "get"]
    /\ cur = [w \in Workers |-> NoTarget]
    /\ cancelReq = [w \in Workers |-> FALSE]
    /\ spc = "join"
    /\ exitReason = "none"
    /\ startCancel = FALSE
    /\ shutdown = FALSE
    /\ mpc = "wait"
    /\ node_buffer = << >>
    /\ fpc = [p \in Procs |-> "none"]
    /\ ref = [p \in Procs |-> "none"]
    /\ batch = [p \in Procs |-> << >>]
    /\ nodes = {}
    /\ clock = 1
    /\ enqueued = Len(queue)
    /\ dequeued = 0
    /\ acked = 0
    /\ scans = [h \in Hosts |-> 0]
    /\ accepted = {}
    /\ flushedIps = {}
    /\ lastWrite = [h \in Hosts |-> 0]
    /\ lastEvent = [h \in Hosts |-> NoEvent]
    /\ recommitted = FALSE
    /\ enriched = {}
    /\ alerts = << >>
    /\ prevAlerts = << >>
    /\ drun = 0
    /\ derr = "none"
    /\ ppc = "crawl"
    /\ mode = "scan"
    /\ phases = {"crawl"}
    /\ todo = << >>
    /\ geoip = LoadedHandler
    /\ file_lines = << >>

\* ------------------------------------------------------- worker (crawler.py)
\* what the worker loop does after queue.task_done(): the `while self.active`
\* test, then the next queue.get()
LoopHead == IF active THEN "get" ELSE "exited"

\* WGet with the mark forgotten: the host is tested but never added
WGet_NoMark(w) ==
    /\ wpc[w] = "get"
    /\ active
    /\ ~cancelReq[w]
    /\ queue # << >>
    /\ LET t == Head(queue) IN
         /\ queue' = Tail(queue)
         /\ dequeued' = dequeued + 1
         /\ IF t[1] \notin seen_ips
            THEN /\ seen_ips' = seen_ips
                 /\ scans' = [scans EXCEPT ![t[1]] = @ + 1]
                 /\ cur' = [cur EXCEPT ![w] = t]
                 /\ wpc' = [wpc EXCEPT ![w] = "probe"]
                 /\ UNCHANGED << unfinished, acked >>
            ELSE /\ unfinished' = unfinished - 1
                 /\ acked' = acked + 1
                 /\ wpc' = [wpc EXCEPT ![w] = LoopHead]
                 /\ UNCHANGED << scans, cur >>
    /\ UNCHANGED << active, cancelReq, spc, exitReason, startCancel, shutdown,
                    mpc, node_buffer, flushVars, nodes, clock, enqueued,
                    accepted, storeHist >>
    /\ UNCHANGED << detVars, pipeVars >>
    /\ UNCHANGED << geoip, file_lines >>

\* ip, port = await self.queue.get(); the SeenSet test and mark; either the
\* skip with task_done() or the call of scan_node up to open_connection
WGet(w) ==
    /\ wpc[w] = "get"
    /\ active
    /\ ~cancelReq[w]
    /\ queue # << >>
    /\ LET t == Head(queue) IN
         /\ queue' = Tail(queue)
         /\ dequeued' = dequeued + 1
         /\ IF t[1] \notin seen_ips
            THEN /\ seen_ips' = seen_ips \cup {t[1]}
                 /\ scans' = [scans EXCEPT ![t[1]] = @ + 1]
                 /\ cur' = [cur EXCEPT ![w] = t]
                 /\ wpc' = [wpc EXCEPT ![w] = "probe"]
                 /\ UNCHANGED << unfinished, acked >>
            ELSE /\ unfinished' = unfinished - 1
                 /\ acked' = acked + 1
                 /\ wpc' = [wpc EXCEPT ![w] = LoopHead]
                 /\ UNCHANGED << seen_ips, scans, cur >>
    /\ UNCHANGED << active, cancelReq, spc, exitReason, startCancel, shutdown,
                    mpc, node_buffer, flushVars, nodes, clock, enqueued,
                    accepted, storeHist >>
    /\ UNCHANGED << detVars, pipeVars >>
    /\ UNCHANGED << geoip, file_lines >>

\* WProbeFail with the acknowledgement forgotten on the failure path
WProbeFail_NoAck(w) ==
    /\ wpc[w] = "probe"
    /\ ~cancelReq[w]
    /\ cur' = [cur EXCEPT ![w] = NoTarget]
    /\ wpc' = [wpc EXCEPT ![w] = LoopHead]
    /\ UNCHANGED << queue, unfinished, acked, seen_ips, active, cancelReq,
                    spc, exitReason, startCancel, shutdown, mpc, node_buffer,
                    flushVars, nodes, clock, enqueued, dequeued, scans,
                    accepted, storeHist >>
    /\ UNCHANGED << detVars, pipeVars >>
    /\ UNCHANGED << geoip, file_lines >>

\* a worker that puts the target of a failed probe back on the queue
WProbeFail_Requeue(w) ==
    /\ wpc[w] = "probe"
    /\ ~cancelReq[w]
    /\ queue' = Append(queue, cur[w])
    /\ enqueued' = enqueued + 1
    /\ acked' = acked + 1
    /\ cur' = [cur EXCEPT ![w] = NoTarget]
    /\ wpc' = [wpc EXCEPT ![w] = LoopHead]
    /\ UNCHANGED << unfinished, seen_ips, active, cancelReq, spc, exitReason,
                    startCancel, shutdown, mpc, node_buffer, flushVars, nodes,
                    clock, dequeued, scans, accepted, storeHist >>
    /\ UNCHANGED << detVars, pipeVars >>
    /\ UNCHANGED << geoip, file_lines >>

\* open_connection times out or is refused: scan_node's bare except, then
\* task_done() in the worker
WProbeFail(w) ==
    /\ wpc[w] = "probe"
    /\ ~cancelReq[w]
    /\ unfinished' = unfinished - 1
    /\ acked' = acked + 1
    /\ cur' = [cur EXCEPT ![w] = NoTarget]
    /\ wpc' = [wpc EXCEPT ![w] = LoopHead]
    /\ UNCHANGED << queue, seen_ips, active, cancelReq, spc, exitReason,
                    startCancel, shutdown, mpc, node_buffer, flushVars, nodes,
                    clock, enqueued, dequeued, scans, accepted, storeHist >>
    /\ UNCHANGED << detVars, pipeVars >>
    /\ UNCHANGED << geoip, file_lines >>

\* add_node's append
Append_node(buf, e) == Append(buf, e)

\* open_connection succeeds: node_data is built and add_node appends it; at
\* BATCH_SIZE add_node enters flush_buffer (up to pool.acquire()), otherwise
\* it returns and scan_node goes on to writer.wait_closed()
WProbeOk(w) ==
    /\ wpc[w] = "probe"
    /\ ~cancelReq[w]
    /\ node_buffer' = Append_node(node_buffer, NodeData(cur[w][1], cur[w][2]))
    /\ accepted' = accepted \cup {cur[w][1]}
    /\ IF Len(node_buffer') >= BATCH_SIZE
       THEN /\ wpc' = [wpc EXCEPT ![w] = "flush"]
            /\ fpc' = [fpc EXCEPT ![w] = "acquire"]
       ELSE /\ wpc' = [wpc EXCEPT ![w] = "wclose"]
            /\ fpc' = fpc
    /\ UNCHANGED << queue, unfinished, seen_ips, active, cur, cancelReq, spc,
                    exitReason, startCancel, shutdown, mpc, ref, batch,
                    nodes, clock, enqueued, dequeued, acked, scans,
                    storeHist >>
    /\ UNCHANGED << detVars, pipeVars >>
    /\ UNCHANGED << geoip, file_lines >>

\* writer.wait_closed() returns, scan_node returns, task_done()
WClosed(w) ==
    /\ wpc[w] = "wclose"
    /\ ~cancelReq[w]
    /\ unfinished' = unfinished - 1
    /\ acked' = acked + 1
    /\ cur' = [cur EXCEPT ![w] = NoTarget]
    /\ wpc' = [wpc EXCEPT ![w] = LoopHead]
    /\ UNCHANGED << queue, seen_ips, active, cancelReq, spc, exitReason,
                    startCancel, shutdown, mpc, node_buffer, flushVars, nodes,
                    clock, enqueued, dequeued, scans, accepted, storeHist >>
    /\ UNCHANGED << detVars, pipeVars >>
    /\ UNCHANGED << geoip, file_lines >>

\* CancelledError is delivered at the worker's current await.  In queue.get()
\* the worker's own handler breaks out of the loop.  Anywhere inside scan_node
\* (the probe, add_node's flush, wait_closed) the bare except of scan_node
\* swallows it: the worker acknowledges the target and leaves at the
\* `while self.active` test.  A flush that is cut short releases its
\* connection and leaves node_buffer as it is.
WCancelled(w) ==
    /\ cancelReq[w]
    /\ wpc[w] # "exited"
    /\ cancelReq' = [cancelReq EXCEPT ![w] = FALSE]
    /\ IF wpc[w] = "get"
       THEN /\ wpc' = [wpc EXCEPT ![w] = "exited"]
            /\ UNCHANGED << unfinished, acked, cur >>
       ELSE /\ unfinished' = unfinished - 1
            /\ acked' = acked + 1
            /\ cur' = [cur EXCEPT ![w] = NoTarget]
            /\ wpc' = [wpc EXCEPT ![w] = LoopHead]
    /\ fpc' = [fpc EXCEPT ![w] = "none"]
    /\ ref' = [ref EXCEPT ![w] = "none"]
    /\ batch' = [batch EXCEPT ![w] = << >>]
    /\ UNCHANGED << queue, seen_ips, active, spc, exitReason, startCancel,
                    shutdown, mpc, node_buffer, nodes, clock,
                    enqueued, dequeued, scans, accepted, storeHist >>
    /\ UNCHANGED << detVars, pipeVars >>
    /\ UNCHANGED << geoip, file_lines >>

\* --------------------------------------- StorageManager.flush_buffer (crawl)
\* a task can take a step of flush_buffer when no cancellation is pending
InFlush(p, at) ==
    /\ fpc[p] = at
    /\ p \in Workers => ~cancelReq[p]

\* a flush_buffer without the test for an empty buffer
MainCallFlush_NoEmptyCheck(next) ==
    /\ mpc' = next
    /\ fpc' = [fpc EXCEPT ![Main] = "acquire"]

\* flush_buffer called by run_crawler: `if not self.node_buffer: return`.
\* The final flush and the flush of close() follow each other without an
\* await, so on an empty buffer both return at once.
MainCallFlush(next) ==
    IF node_buffer = << >>
    THEN /\ mpc' = "pool_close"
         /\ fpc' = [fpc EXCEPT ![Main] = "none"]
    ELSE /\ mpc' = next
         /\ fpc' = [fpc EXCEPT ![Main] = "acquire"]

\* where flush_buffer's caller goes on when flush_buffer returns normally
FlushReturn(p) ==
    IF p = Main
    THEN /\ IF mpc = "final_flush"
            THEN MainCallFlush("close_flush")
            ELSE /\ mpc' = "pool_close"
                 /\ fpc' = [fpc EXCEPT ![Main] = "none"]
         /\ UNCHANGED << wpc, cur, unfinished, acked >>
    ELSE /\ wpc' = [wpc EXCEPT ![p] = "wclose"]
         /\ fpc' = [fpc EXCEPT ![p] = "none"]
         /\ UNCHANGED << mpc, cur, unfinished, acked >>

\* pool.acquire() returns a connection; executemany is called with the list
\* self.node_buffer names at that moment
FlushAcquire(p) ==
    /\ InFlush(p, "acquire")
    /\ fpc' = [fpc EXCEPT ![p] = "exec"]
    /\ ref' = [ref EXCEPT ![p] = "live"]
    /\ batch' = [batch EXCEPT ![p] = << >>]
    /\ UNCHANGED << crawlVars, node_buffer, nodes, clock, accepted,
                    storeHist >>
    /\ UNCHANGED << detVars, pipeVars >>
    /\ UNCHANGED << geoip, file_lines >>

\* pool.acquire() raises (connection lost): the exception leaves flush_buffer
\* outside its try.  In a worker scan_node's bare except swallows it and the
\* target is acknowledged; in run_crawler it propagates.
FlushAcquireFail(p) ==
    /\ InFlush(p, "acquire")
    /\ fpc' = [fpc EXCEPT ![p] = "none"]
    /\ IF p = Main
       THEN /\ mpc' = "failed"
            /\ UNCHANGED << wpc, cur, unfinished, acked >>
       ELSE /\ wpc' = [wpc EXCEPT ![p] = LoopHead]
            /\ cur' = [cur EXCEPT ![p] = NoTarget]
            /\ unfinished' = unfinished - 1
            /\ acked' = acked + 1
            /\ mpc' = mpc
    /\ UNCHANGED << queue, seen_ips, active, cancelReq, spc, exitReason,
                    startCancel, shutdown, node_buffer, ref, batch,
                    nodes, clock, enqueued, dequeued, scans, accepted,
                    storeHist >>
    /\ UNCHANGED << detVars, pipeVars >>
    /\ UNCHANGED << geoip, file_lines >>

\* executemany has prepared the statement and reads its argument list: the
\* list object it was given, with whatever was appended to it meanwhile
FlushSend(p) ==
    /\ InFlush(p, "exec")
    /\ fpc' = [fpc EXCEPT ![p] = "sent"]
    /\ batch' = [batch EXCEPT ![p] = IF ref[p] = "live" THEN node_buffer
                                                         ELSE @]
    /\ UNCHANGED << crawlVars, node_buffer, ref, nodes, clock, accepted,
                    storeHist >>
    /\ UNCHANGED << detVars, pipeVars >>
    /\ UNCHANGED << geoip, file_lines >>

\* `self.node_buffer = []`: the attribute names a new list; a task whose
\* executemany still holds the old list keeps the old contents
ClearBuffer(p) ==
    /\ node_buffer' = << >>
    /\ ref' = [q \in Procs |->
                 IF q # p /\ ref[q] = "live" THEN "frozen" ELSE ref[q]]

\* the old list as seen by the tasks that still hold it
Frozen(p, b) ==
    [q \in Procs |->
       IF q # p /\ ref[q] = "live" /\ fpc[q] = "exec" THEN node_buffer
       ELSE b[q]]

\* a flush that commits the first row on its own and loses the others
FlushCommit_FirstRow(p) ==
    /\ InFlush(p, "sent")
    /\ nodes' = (IF batch[p] = << >> THEN nodes
                 ELSE Upsert(nodes, Head(batch[p]), clock))
    /\ clock' = clock + 1
    /\ Committed(batch[p], clock)
    /\ ClearBuffer(p)
    /\ batch' = Frozen(p, batch)
    /\ fpc' = [fpc EXCEPT ![p] = "release"]
    /\ UNCHANGED << crawlVars, accepted, enriched >>
    /\ UNCHANGED << detVars, pipeVars >>
    /\ UNCHANGED << geoip, file_lines >>

\* executemany returns: the batch is committed, then the buffer is cleared
FlushCommit(p) ==
    /\ InFlush(p, "sent")
    /\ nodes' = ExecuteMany(nodes, batch[p], clock)
    /\ clock' = clock + 1
    /\ Committed(batch[p], clock)
    /\ ClearBuffer(p)
    /\ batch' = Frozen(p, batch)
    /\ fpc' = [fpc EXCEPT ![p] = "release"]
    /\ UNCHANGED << crawlVars, accepted, enriched >>
    /\ UNCHANGED << detVars, pipeVars >>
    /\ UNCHANGED << geoip, file_lines >>

\* FlushFail with the buffer cleared on the error path as well
FlushFail_Clears(p) ==
    /\ InFlush(p, "exec") \/ InFlush(p, "sent")
    /\ fpc' = [fpc EXCEPT ![p] = "release"]
    /\ ClearBuffer(p)
    /\ batch' = Frozen(p, batch)
    /\ UNCHANGED << crawlVars, nodes, clock, accepted, storeHist >>
    /\ UNCHANGED << detVars, pipeVars >>
    /\ UNCHANGED << geoip, file_lines >>

\* executemany raises: the error is logged, nothing is written
FlushFail(p) ==
    /\ InFlush(p, "exec") \/ InFlush(p, "sent")
    /\ fpc' = [fpc EXCEPT ![p] = "release"]
    /\ UNCHANGED << crawlVars, node_buffer, ref, batch, nodes, clock,
                    accepted, storeHist >>
    /\ UNCHANGED << detVars, pipeVars >>
    /\ UNCHANGED << geoip, file_lines >>

\* the connection goes back to the pool and flush_buffer returns
FlushRelease(p) ==
    /\ InFlush(p, "release")
    /\ FlushReturn(p)
    /\ ref' = [ref EXCEPT ![p] = "none"]
    /\ batch' = [batch EXCEPT ![p] = << >>]
    /\ UNCHANGED << queue, seen_ips, active, cancelReq, spc, exitReason,
                    startCancel, shutdown, node_buffer, nodes,
                    clock, enqueued, dequeued, scans, accepted, storeHist >>
    /\ UNCHANGED << detVars, pipeVars >>
    /\ UNCHANGED << geoip, file_lines >>

\* ------------------------------------------------ MoneroCrawler.start
\* a start whose cleanup runs in the TimeoutError handler only
StartFinally_OnlyOnTimeout(reason) ==
    /\ spc = "join"
    /\ active' = (IF reason = "timeout" THEN FALSE ELSE active)
    /\ cancelReq' = [w \in Workers |->
                       IF reason = "timeout" THEN wpc[w] # "exited"
                       ELSE cancelReq[w]]
    /\ spc' = "returned"
    /\ exitReason' = reason
    /\ UNCHANGED << queue, unfinished, seen_ips, wpc, cur, startCancel,
                    shutdown, mpc, node_buffer, flushVars, nodes, clock,
                    enqueued, dequeued, acked, scans, accepted, storeHist >>
    /\ UNCHANGED << detVars, pipeVars >>
    /\ UNCHANGED << geoip, file_lines >>

\* the finally block: the flag is cleared and every worker task is sent
\* cancel(); start returns without awaiting the workers
StartFinally(reason) ==
    /\ spc = "join"
    /\ active' = FALSE
    /\ cancelReq' = [w \in Workers |-> wpc[w] # "exited"]
    /\ spc' = "returned"
    /\ exitReason' = reason
    /\ UNCHANGED << queue, unfinished, seen_ips, wpc, cur, startCancel,
                    shutdown, mpc, node_buffer, flushVars, nodes, clock,
                    enqueued, dequeued, acked, scans, accepted, storeHist >>
    /\ UNCHANGED << detVars, pipeVars >>
    /\ UNCHANGED << geoip, file_lines >>

\* queue.join() returns: no unfinished task
StartDrained == unfinished = 0 /\ StartFinally("drained")

\* a start that waits on queue.join() without a deadline
StartTimeout_WaitsForDrain == unfinished = 0 /\ StartFinally("timeout")

\* wait_for raises TimeoutError: the deadline can elapse at any moment
StartTimeout == StartFinally("timeout")

\* run_crawler cancelled the crawler task
StartCancelled == startCancel /\ StartFinally("cancelled")

\* ------------------------------------------------ run_crawler (main.py)
\* the signal handler sets shutdown_event
Signal ==
    /\ ~shutdown
    /\ mpc = "wait"
    /\ shutdown' = TRUE
    /\ UNCHANGED << queue, unfinished, seen_ips, active, wpc, cur, cancelReq,
                    spc, exitReason, startCancel, mpc, node_buffer, flushVars,
                    nodes, clock, enqueued, dequeued, acked, scans, accepted,
                    storeHist >>
    /\ UNCHANGED << detVars, pipeVars >>
    /\ UNCHANGED << geoip, file_lines >>

\* asyncio.wait returns with shutdown_wait done: crawler_task.cancel(), then
\* await crawler_task
MainAbort ==
    /\ mpc = "wait"
    /\ shutdown
    /\ startCancel' = (spc = "join")
    /\ mpc' = "await_crawler"
    /\ UNCHANGED << queue, unfinished, seen_ips, active, wpc, cur, cancelReq,
                    spc, exitReason, shutdown, node_buffer, flushVars, nodes,
                    clock, enqueued, dequeued, acked, scans, accepted,
                    storeHist >>
    /\ UNCHANGED << detVars, pipeVars >>
    /\ UNCHANGED << geoip, file_lines >>

\* the crawler task is done: the final flush_buffer() of run_crawler
MainFinalFlush ==
    /\ mpc \in {"wait", "await_crawler"}
    /\ spc = "returned"
    /\ MainCallFlush("final_flush")
    /\ UNCHANGED << queue, unfinished, seen_ips, active, wpc, cur, cancelReq,
                    spc, exitReason, startCancel, shutdown, node_buffer, ref,
                    batch, nodes, clock, enqueued, dequeued, acked,
                    scans, accepted, storeHist >>
    /\ UNCHANGED << detVars, pipeVars >>
    /\ UNCHANGED << geoip, file_lines >>

\* close(): pool.close() waits until every connection has been released
MainPoolClose ==
    /\ mpc = "pool_close"
    /\ \A w \in Workers : fpc[w] = "none"
    /\ mpc' = "done"
    /\ UNCHANGED << queue, unfinished, seen_ips, active, wpc, cur, cancelReq,
                    spc, exitReason, startCancel, shutdown, node_buffer,
                    flushVars, nodes, clock, enqueued, dequeued, acked, scans,
                    accepted, storeHist >>
    /\ UNCHANGED << detVars, pipeVars >>
    /\ UNCHANGED << geoip, file_lines >>

Next ==
    \/ \E w \in Workers : WGet(w)
    \/ \E w \in Workers : WProbeFail(w)
    \/ \E w \in Workers : WProbeOk(w)
    \/ \E w \in Workers : WClosed(w)
    \/ \E w \in Workers : WCancelled(w)
    \/ \E p \in Procs : FlushAcquire(p)
    \/ \E p \in Procs : FlushAcquireFail(p)
    \/ \E p \in Procs : FlushSend(p)
    \/ \E p \in Procs : FlushCommit(p)
    \/ \E p \in Procs : FlushFail(p)
    \/ \E p \in Procs : FlushRelease(p)
    \/ StartDrained
    \/ StartTimeout
    \/ StartCancelled
    \/ Signal
    \/ MainAbort
    \/ MainFinalFlush
    \/ MainPoolClose

Spec == Init /\ [][Next]_vars

\* The crawl run under the scheduling the event loop gives: the timer of
\* wait_for fires once the deadline has elapsed, a cancelled crawler task is
\* resumed, and run_crawler is resumed once the task it awaits is done.
\* Nothing is assumed about the workers: a probe may take arbitrarily long
\* compared to the deadline.
Fairness ==
    /\ WF_vars(StartTimeout)
    /\ WF_vars(StartCancelled)
    /\ WF_vars(MainAbort)
    /\ WF_vars(MainFinalFlush)
    /\ WF_vars(MainPoolClose)

\* the runs whose target list has at most LiveTargets entries
InitLive == Init /\ Len(queue) <= LiveTargets

SpecLive == InitLive /\ [][Next]_vars /\ Fairness

\* The crawl run on a host in any of the states initialize() can leave the
\* resolver in, on the short target lists
InitResolve ==
    /\ queue \in SeqsUpTo(Targets, ResolveTargets)
    /\ Canonical(queue)
    /\ geoip \in Handlers
    /\ file_lines = << >>
    /\ unfinished = Len(queue)
    /\ seen_ips = {}
    /\ active = TRUE
    /\ wpc = [w \in Workers |-> "get"]
    /\ cur = [w \in Workers |-> NoTarget]
    /\ cancelReq = [w \in Workers |-> FALSE]
    /\ spc = "join"
    /\ exitReason = "none"
    /\ startCancel = FALSE
    /\ shutdown = FALSE
    /\ mpc = "wait"
    /\ node_buffer = << >>
    /\ fpc = [p \in Procs |-> "none"]
    /\ ref = [p \in Procs |-> "none"]
    /\ batch = [p \in Procs |-> << >>]
    /\ nodes = {}
    /\ clock = 1
    /\ enqueued = Len(queue)
    /\ dequeued = 0
    /\ acked = 0
    /\ scans = [h \in Hosts |-> 0]
    /\ accepted = {}
    /\ flushedIps = {}
    /\ lastWrite = [h \in Hosts |-> 0]
    /\ lastEvent = [h \in Hosts |-> NoEvent]
    /\ recommitted = FALSE
    /\ enriched = {}
    /\ alerts = << >>
    /\ prevAlerts = << >>
    /\ drun = 0
    /\ derr = "none"
    /\ ppc = "crawl"
    /\ mode = "scan"
    /\ phases = {"crawl"}
    /\ todo = << >>

SpecResolve == InitResolve /\ [][Next]_vars

\* ======================================================================
\* SpecStore: the nodes table under one StorageManager and one DataEnricher
\* ======================================================================
StoreIps == {"10.0.0.1", "10.0.0.2"}

\* scan_node's node_data for an ip the resolver cannot place
BareProbe(ip) ==
    [ ip |-> ip, port |-> DEFAULT_PORT, version |-> 1,
      user_agent |-> "Monero/0.18.0.0",
      asn |-> UNKNOWN_ISP, isp |-> UNKNOWN_ISP, country |-> UNKNOWN_COUNTRY ]

\* scan_node's node_data for an ip the resolver knows, found on another port
ResolvedProbe(ip) ==
    [ ip |-> ip, port |-> 18081, version |-> 1,
      user_agent |-> "Monero/0.18.0.0",
      asn |-> "AS16509 (Amazon.com)", isp |-> "AS16509 (Amazon.com)",
      country |-> "FR" ]

\* inject_seed_data's node_data of a sybil node
SeedNode(ip) ==
    [ ip |-> ip, port |-> DEFAULT_PORT, version |-> 9999,
      user_agent |-> "Monero/v0.18.0.9999",
      asn |-> "AS66666", isp |-> "Malicious Corp Ltd.",
      country |-> UNKNOWN_COUNTRY ]

\* every kind of event for one ip, a bare probe for the others
StoreEvents ==
    { BareProbe(ip) : ip \in StoreIps } \cup
    { ResolvedProbe("10.0.0.1"), SeedNode("10.0.0.1") }

\* longest buffer explored: one event past the flush threshold
MaxBuf == BATCH_SIZE + 1

InitStore ==
    /\ queue = << >>
    /\ unfinished = 0
    /\ seen_ips = {}
    /\ active = FALSE
    /\ wpc = [w \in Workers |-> "exited"]
    /\ cur = [w \in Workers |-> NoTarget]
    /\ cancelReq = [w \in Workers |-> FALSE]
    /\ spc = "returned"
    /\ exitReason = "none"
    /\ startCancel = FALSE
    /\ shutdown = FALSE
    /\ mpc = "store"
    /\ node_buffer = << >>
    /\ fpc = [p \in Procs |-> "none"]
    /\ ref = [p \in Procs |-> "none"]
    /\ batch = [p \in Procs |-> << >>]
    /\ nodes = {}
    /\ clock = 1
    /\ enqueued = 0
    /\ dequeued = 0
    /\ acked = 0
    /\ scans = [h \in Hosts |-> 0]
    /\ accepted = {}
    /\ flushedIps = {}
    /\ lastWrite = [h \in Hosts |-> 0]
    /\ lastEvent = [h \in Hosts |-> NoEvent]
    /\ recommitted = FALSE
    /\ enriched = {}
    /\ alerts = << >>
    /\ prevAlerts = << >>
    /\ drun = 0
    /\ derr = "none"
    /\ ppc = "store"
    /\ mode = "scan"
    /\ phases = {}
    /\ todo = << >>
    /\ geoip = LoadedHandler
    /\ file_lines = << >>

\* flush_buffer run to completion on buffer buf: nothing on an empty buffer;
\* executemany commits and the buffer is cleared, or it raises and the
\* buffer stays
FlushBuffer(buf, ok) ==
    IF buf # << >> /\ ok
    THEN /\ clock < MaxClock
         /\ nodes' = ExecuteMany(nodes, buf, clock)
         /\ clock' = clock + 1
         /\ Committed(buf, clock)
         /\ node_buffer' = << >>
    ELSE /\ node_buffer' = buf
         /\ UNCHANGED << nodes, clock, flushedIps, lastWrite, lastEvent,
                         recommitted >>

\* add_node(e): append, then flush_buffer at BATCH_SIZE
SAdd(e, ok) ==
    /\ Len(node_buffer) < MaxBuf
    /\ LET buf == Append_node(node_buffer, e) IN
         IF Len(buf) >= BATCH_SIZE
         THEN FlushBuffer(buf, ok)
         ELSE /\ node_buffer' = buf
              /\ ok
              /\ UNCHANGED << nodes, clock, flushedIps, lastWrite, lastEvent,
                              recommitted >>
    /\ UNCHANGED << crawlVars, flushVars, accepted, enriched >>
    /\ UNCHANGED << detVars, pipeVars >>
    /\ UNCHANGED << geoip, file_lines >>

\* flush_buffer() called directly (inject_seed_data, run_crawler, close)
SFlush(ok) ==
    /\ node_buffer # << >>
    /\ FlushBuffer(node_buffer, ok)
    /\ UNCHANGED << crawlVars, flushVars, accepted, enriched >>
    /\ UNCHANGED << detVars, pipeVars >>
    /\ UNCHANGED << geoip, file_lines >>

\* reset_db: TRUNCATE TABLE nodes
SReset ==
    /\ nodes # {}
    /\ nodes' = {}
    /\ flushedIps' = {}
    /\ lastWrite' = [h \in Hosts |-> 0]
    /\ lastEvent' = [h \in Hosts |-> NoEvent]
    /\ recommitted' = FALSE
    /\ enriched' = {}
    /\ UNCHANGED << crawlVars, flushVars, node_buffer, clock, accepted >>
    /\ UNCHANGED << detVars, pipeVars >>
    /\ UNCHANGED << geoip, file_lines >>

\* enrich_data's query: the ips whose country or organization is a placeholder
EnrichSelect(T) ==
    { r.ip : r \in { x \in T :
                       \/ x.country_code \in {"", "XX", "None", "Unknown"}
                       \/ x.isp_name \in {"", "Unknown", "Unknown ISP"} } }

\* UPDATE nodes SET country_code = c, isp_name = i WHERE TRIM(ip) = ip
UpdateGeo(T, ip, c, i) ==
    { IF r.ip = ip THEN [r EXCEPT !.country_code = c, !.isp_name = i] ELSE r
      : r \in T }

\* resolve_ip for one selected ip: the lookup answers success with a country
\* and an isp, answers with another status (the row is marked), or the
\* request fails (non-200, exception: nothing is written)
SResolve(ip, answer) ==
    /\ ip \in EnrichSelect(nodes)
    /\ \/ /\ answer = "success"
          /\ nodes' = UpdateGeo(nodes, ip, "US", "Hetzner Online GmbH")
          /\ enriched' = enriched \cup {ip}
       \/ /\ answer = "fail"
          /\ nodes' = UpdateGeo(nodes, ip, "Unknown", "Private")
          /\ enriched' = enriched
       \/ /\ answer = "error"
          /\ UNCHANGED << nodes, enriched >>
    /\ UNCHANGED << crawlVars, flushVars, node_buffer, clock, accepted,
                    flushedIps, lastWrite, lastEvent, recommitted >>
    /\ UNCHANGED << detVars, pipeVars >>
    /\ UNCHANGED << geoip, file_lines >>

NextStore ==
    \/ \E e \in StoreEvents, ok \in BOOLEAN : SAdd(e, ok)
    \/ \E ok \in BOOLEAN : SFlush(ok)
    \/ SReset
    \/ \E ip \in StoreIps, answer \in {"success", "fail", "error"} :
          SResolve(ip, answer)

SpecStore == InitStore /\ [][NextStore]_vars

\* ======================================================================
\* SpecDetect: NetworkAnalyzer.detect_sybils on a populated nodes table
\* ======================================================================
\* HAVING count(*) > 5
MIN_GROUP_SIZE == 5
\* if row['network_percent'] > 20
THRESHOLD_PERCENT == 20

\* the organizations of the generated tables
DetectOrgs == {"AS-A", "AS-B", "AS-C"}
\* the organizations of the two larger tables
UniformOrgs ==
    {"AS-01", "AS-02", "AS-03", "AS-04", "AS-05",
     "AS-06", "AS-07", "AS-08", "AS-09", "AS-10"}
SkewedOrgs == UniformOrgs \cup {"AS-11", "AS-12", "AS-13", "AS-14"}

\* the event of the i-th node of organization o
OrgEvent(o, i) ==
    [ ip |-> << o, i >>, port |-> DEFAULT_PORT, version |-> 1,
      user_agent |-> "Monero/0.18.0.0", asn |-> o, isp |-> o,
      country |-> UNKNOWN_COUNTRY ]

\* the table holding cnt[o] nodes of every organization o
Population(cnt) ==
    UNION { { InsertRow(OrgEvent(o, i), 0) : i \in 1..cnt[o] }
            : o \in DOMAIN cnt }

\* one organization holds 35 of 100 rows, thirteen others 5 each
SkewedTable ==
    Population([o \in SkewedOrgs |-> IF o = "AS-01" THEN 35 ELSE 5])
\* ten organizations hold 10 rows each
UniformTable == Population([o \in UniformOrgs |-> 10])

\* an event a crawl left in its own StorageManager (its last flushes failed)
PendingEvent == OrgEvent("AS-A", 0)

\* GROUP BY isp_name
GroupBy(T) == { r.isp_name : r \in T }
\* count(*) of one group
GroupCount(T, o) == Cardinality({ r \in T : r.isp_name = o })
\* HAVING count(*) > 5
Having(T) == { o \in GroupBy(T) : GroupCount(T, o) > MIN_GROUP_SIZE }

\* one result row: network_percent = cnt::float / full_count * 100 is kept
\* as the pair (cnt, full_count); on row counts of this size the double
\* compares with 20 and with another row's double as the exact quotient does
ResultRow(T, o) ==
    [ isp_name |-> o, cnt |-> GroupCount(T, o), full_count |-> Cardinality(T) ]

\* the select list divided by the total once per query, not once per group
DivisionByZero_PerQuery(T) == Cardinality(T) = 0

\* the division raises division_by_zero when a group's row is computed on a
\* total of 0
DivisionByZero(T) == \E o \in Having(T) : Cardinality(T) = 0

\* ORDER BY network_percent, ascending
Precedes_Asc(a, b) == a.cnt * b.full_count <= b.cnt * a.full_count

\* ORDER BY network_percent DESC: a may come before b
Precedes(a, b) == a.cnt * b.full_count >= b.cnt * a.full_count

\* the result rows in the order of ORDER BY; rows of equal percentage come in
\* an order the database chooses
RECURSIVE OrderBy(_)
OrderBy(R) ==
    IF R = {} THEN << >>
    ELSE LET top == CHOOSE a \in R : \A b \in R : Precedes(a, b)
         IN  << top >> \o OrderBy(R \ {top})

\* pool.fetch(query)
Query(T) == OrderBy({ ResultRow(T, o) : o \in Having(T) })

\* the test of the loop with >= for >
Exceeds_AtLeast(row) == row.cnt * 100 >= THRESHOLD_PERCENT * row.full_count

\* if row['network_percent'] > 20
Exceeds(row) == row.cnt * 100 > THRESHOLD_PERCENT * row.full_count

\* the alerts printed by the loop over the rows
Printed(T) == SelectSeq(Query(T), Exceeds)

\* an analyzer that shares the crawl's StorageManager
AnalyzerBuffer_Shared == node_buffer

\* node_buffer of the StorageManager the analyzer creates for itself
AnalyzerBuffer == << >>

\* close() of the analyzer's handle: flush_buffer on its buffer, pool.close()
CloseFlush(buf) ==
    IF buf = << >>
    THEN UNCHANGED << nodes, clock >>
    ELSE /\ nodes' = ExecuteMany(nodes, buf, clock)
         /\ clock' = clock + 1

\* detect_sybils after connect(): the query, the loop, close() in finally
RunDetect ==
    /\ IF DivisionByZero(nodes)
       THEN /\ alerts' = << >>
            /\ derr' = "division_by_zero"
       ELSE /\ alerts' = Printed(nodes)
            /\ derr' = "none"
    /\ prevAlerts' = alerts
    /\ drun' = drun + 1
    /\ CloseFlush(AnalyzerBuffer)

\* detect_sybils: connect() raises and nothing else runs, or the run
DetectSybils(ok) ==
    /\ mpc = "detect"
    /\ drun < MaxRuns
    /\ IF ok
       THEN RunDetect
       ELSE /\ derr' = "connect"
            /\ UNCHANGED << alerts, prevAlerts, drun, nodes, clock >>
    /\ UNCHANGED << crawlVars, flushVars, node_buffer, accepted, storeHist,
                    pipeVars >>
    /\ UNCHANGED << geoip, file_lines >>

InitDetect ==
    /\ queue = << >>
    /\ unfinished = 0
    /\ seen_ips = {}
    /\ active = FALSE
    /\ wpc = [w \in Workers |-> "exited"]
    /\ cur = [w \in Workers |-> NoTarget]
    /\ cancelReq = [w \in Workers |-> FALSE]
    /\ spc = "returned"
    /\ exitReason = "none"
    /\ startCancel = FALSE
    /\ shutdown = FALSE
    /\ mpc = "detect"
    /\ node_buffer \in { << >>, << PendingEvent >> }
    /\ fpc = [p \in Procs |-> "none"]
    /\ ref = [p \in Procs |-> "none"]
    /\ batch = [p \in Procs |-> << >>]
    /\ nodes \in { Population(cnt) : cnt \in [DetectOrgs -> 0..MaxGroup] }
                   \cup { SkewedTable, UniformTable }
    /\ clock = 1
    /\ enqueued = 0
    /\ dequeued = 0
    /\ acked = 0
    /\ scans = [h \in Hosts |-> 0]
    /\ accepted = {}
    /\ flushedIps = {}
    /\ lastWrite = [h \in Hosts |-> 0]
    /\ lastEvent = [h \in Hosts |-> NoEvent]
    /\ recommitted = FALSE
    /\ enriched = {}
    /\ alerts = << >>
    /\ prevAlerts = << >>
    /\ drun = 0
    /\ derr = "none"
    /\ ppc = "forensics"
    /\ mode = "scan"
    /\ phases = {}
    /\ todo = << >>
    /\ geoip = LoadedHandler
    /\ file_lines = << >>

NextDetect == \E ok \in BOOLEAN : DetectSybils(ok)

SpecDetect == InitDetect /\ [][NextDetect]_vars

\* ======================================================================
\* SpecPipe: main_pipeline from its first step to its end
\* ======================================================================
\* the rows inject_seed_data can have written
SeedRows == { InsertRow(SeedNode(ip), 0) : ip \in StoreIps }

\* a table left by an earlier run
OldTable == { InsertRow(BareProbe("10.0.0.2"), 0) }

\* the orders in which a SELECT without ORDER BY can return the set S
Orders(S) ==
    { q \in SeqsUpTo(S, Cardinality(S)) :
        Len(q) = Cardinality(S) /\ { q[i] : i \in DOMAIN q } = S }

InitPipe ==
    /\ queue = << >>
    /\ unfinished = 0
    /\ seen_ips = {}
    /\ active = FALSE
    /\ wpc = [w \in Workers |-> "none"]
    /\ cur = [w \in Workers |-> NoTarget]
    /\ cancelReq = [w \in Workers |-> FALSE]
    /\ spc = "none"
    /\ exitReason = "none"
    /\ startCancel = FALSE
    /\ shutdown = FALSE
    /\ mpc = "none"
    /\ node_buffer = << >>
    /\ fpc = [p \in Procs |-> "none"]
    /\ ref = [p \in Procs |-> "none"]
    /\ batch = [p \in Procs |-> << >>]
    /\ nodes \in { {}, OldTable }
    /\ clock = 1
    /\ enqueued = 0
    /\ dequeued = 0
    /\ acked = 0
    /\ scans = [h \in Hosts |-> 0]
    /\ accepted = {}
    /\ flushedIps = {}
    /\ lastWrite = [h \in Hosts |-> 0]
    /\ lastEvent = [h \in Hosts |-> NoEvent]
    /\ recommitted = FALSE
    /\ enriched = {}
    /\ alerts = << >>
    /\ prevAlerts = << >>
    /\ drun = 0
    /\ derr = "none"
    /\ ppc = "step1"
    /\ mode \in {"scan", "mock", "skip_scan"}
    /\ phases = {}
    /\ todo = << >>
    /\ geoip = LoadedHandler
    /\ file_lines = << >>

\* the signal handler sets shutdown_event while run_crawler is not waiting
\* on it (Signal is the handler during that wait)
PSignal ==
    /\ ~shutdown
    /\ mpc # "wait"
    /\ ppc \notin {"finished", "crashed"}
    /\ shutdown' = TRUE
    /\ UNCHANGED << queue, unfinished, seen_ips, active, wpc, cur, cancelReq,
                    spc, exitReason, startCancel, mpc, node_buffer, flushVars,
                    nodes, clock, enqueued, dequeued, acked, scans, accepted,
                    storeHist, detVars, pipeVars >>
    /\ UNCHANGED << geoip, file_lines >>

\* STEP 1: inject_seed_data in mock mode (connect, reset_db, the seed rows
\* its flushes manage to write, close), run_crawler unless --skip-scan or
\* shutdown, nothing otherwise
PStep1(ok) ==
    /\ ppc = "step1"
    /\ IF mode = "mock"
       THEN /\ IF ok
               THEN /\ nodes' \in SUBSET SeedRows
                    /\ ppc' = "step2"
               ELSE /\ nodes' = nodes
                    /\ ppc' = "crashed"
            /\ phases' = phases \cup {"inject"}
            /\ mpc' = mpc
       ELSE /\ ok
            /\ IF mode = "scan" /\ ~shutdown
               THEN /\ ppc' = "crawl"
                    /\ mpc' = "connect"
                    /\ phases' = phases \cup {"crawl"}
               ELSE /\ ppc' = "step2"
                    /\ UNCHANGED << mpc, phases >>
            /\ nodes' = nodes
    /\ UNCHANGED << queue, unfinished, seen_ips, active, wpc, cur, cancelReq,
                    spc, exitReason, startCancel, shutdown, node_buffer,
                    flushVars, clock, enqueued, dequeued, acked, scans,
                    accepted, storeHist, detVars, mode, todo >>
    /\ UNCHANGED << geoip, file_lines >>

\* a connect() that logs the error and returns
RConnect_Swallows(ok) ==
    /\ ppc = "crawl"
    /\ mpc = "connect"
    /\ mpc' = "reset"
    /\ phases' = (IF ok THEN phases ELSE phases \cup {"connect_failed"})
    /\ UNCHANGED << queue, unfinished, seen_ips, active, wpc, cur, cancelReq,
                    spc, exitReason, startCancel, shutdown, node_buffer,
                    flushVars, nodes, clock, enqueued, dequeued, acked, scans,
                    accepted, storeHist, detVars, ppc, mode, todo >>
    /\ UNCHANGED << geoip, file_lines >>

\* run_crawler: storage.connect() returns, or logs the error and raises it
RConnect(ok) ==
    /\ ppc = "crawl"
    /\ mpc = "connect"
    /\ IF ok
       THEN /\ mpc' = "reset"
            /\ phases' = phases
       ELSE /\ mpc' = "failed"
            /\ phases' = phases \cup {"connect_failed"}
    /\ UNCHANGED << queue, unfinished, seen_ips, active, wpc, cur, cancelReq,
                    spc, exitReason, startCancel, shutdown, node_buffer,
                    flushVars, nodes, clock, enqueued, dequeued, acked, scans,
                    accepted, storeHist, detVars, ppc, mode, todo >>
    /\ UNCHANGED << geoip, file_lines >>

\* a run_crawler that does not call reset_db
RStart_NoReset ==
    /\ ppc = "crawl"
    /\ mpc = "reset"
    /\ nodes' = nodes
    /\ queue' \in SeqsUpTo(Targets, PipeTargets)
    /\ Canonical(queue')
    /\ unfinished' = Len(queue')
    /\ enqueued' = Len(queue')
    /\ active' = TRUE
    /\ wpc' = [w \in Workers |-> "get"]
    /\ spc' = "join"
    /\ mpc' = "wait"
    /\ phases' = phases \cup {"workers"}
    /\ UNCHANGED << seen_ips, cur, cancelReq, exitReason, startCancel,
                    shutdown, node_buffer, flushVars, clock, dequeued, acked,
                    scans, accepted, storeHist, detVars, ppc, mode, todo >>
    /\ UNCHANGED << geoip, file_lines >>

\* run_crawler: reset_db, then the crawler task runs up to its wait:
\* load_from_file fills the queue and the worker tasks are created
RStart ==
    /\ ppc = "crawl"
    /\ mpc = "reset"
    /\ nodes' = {}
    /\ queue' \in SeqsUpTo(Targets, PipeTargets)
    /\ Canonical(queue')
    /\ unfinished' = Len(queue')
    /\ enqueued' = Len(queue')
    /\ active' = TRUE
    /\ wpc' = [w \in Workers |-> "get"]
    /\ spc' = "join"
    /\ mpc' = "wait"
    /\ phases' = phases \cup {"workers"}
    /\ UNCHANGED << seen_ips, cur, cancelReq, exitReason, startCancel,
                    shutdown, node_buffer, flushVars, clock, dequeued, acked,
                    scans, accepted, storeHist, detVars, ppc, mode, todo >>
    /\ UNCHANGED << geoip, file_lines >>

\* run_crawler returns to main_pipeline, or its exception leaves
\* main_pipeline (only CancelledError is caught there)
PCrawlEnd ==
    /\ ppc = "crawl"
    /\ mpc \in {"done", "failed"}
    /\ ppc' = (IF mpc = "done" THEN "step2" ELSE "crashed")
    /\ UNCHANGED << crawlVars, flushVars, node_buffer, nodes, clock,
                    accepted, storeHist, detVars, mode, phases, todo >>
    /\ UNCHANGED << geoip, file_lines >>

\* a STEP 2 that starts run_enrichment whatever shutdown_event says
PStep2_IgnoresShutdown(ok) ==
    /\ ppc = "step2"
    /\ IF mode # "mock"
       THEN /\ phases' = phases \cup {"enrichment"}
            /\ IF ok
               THEN /\ ppc' = "enrich"
                    /\ todo' \in Orders(EnrichSelect(nodes))
               ELSE /\ ppc' = "step3"
                    /\ todo' = todo
       ELSE /\ ok
            /\ ppc' = "step3"
            /\ UNCHANGED << phases, todo >>
    /\ UNCHANGED << crawlVars, flushVars, node_buffer, nodes, clock,
                    accepted, storeHist, detVars, mode >>
    /\ UNCHANGED << geoip, file_lines >>

\* STEP 2: run_enrichment unless shutdown or mock mode; enrich_data connects
\* and selects the rows to resolve, or its connect() raises, which
\* run_enrichment logs
PStep2(ok) ==
    /\ ppc = "step2"
    /\ IF ~shutdown /\ mode # "mock"
       THEN /\ phases' = phases \cup {"enrichment"}
            /\ IF ok
               THEN /\ ppc' = "enrich"
                    /\ todo' \in Orders(EnrichSelect(nodes))
               ELSE /\ ppc' = "step3"
                    /\ todo' = todo
       ELSE /\ ok
            /\ ppc' = "step3"
            /\ UNCHANGED << phases, todo >>
    /\ UNCHANGED << crawlVars, flushVars, node_buffer, nodes, clock,
                    accepted, storeHist, detVars, mode >>
    /\ UNCHANGED << geoip, file_lines >>

\* enrich_data: resolve_ip for the next selected ip, then the sleep
PResolve(answer) ==
    /\ ppc = "enrich"
    /\ todo # << >>
    /\ todo' = Tail(todo)
    /\ \/ /\ answer = "success"
          /\ nodes' = UpdateGeo(nodes, Head(todo), "US", "Hetzner Online GmbH")
          /\ enriched' = enriched \cup {Head(todo)}
       \/ /\ answer = "fail"
          /\ nodes' = UpdateGeo(nodes, Head(todo), "Unknown", "Private")
          /\ enriched' = enriched
       \/ /\ answer = "error"
          /\ UNCHANGED << nodes, enriched >>
    /\ UNCHANGED << crawlVars, flushVars, node_buffer, clock, accepted,
                    flushedIps, lastWrite, lastEvent, recommitted, detVars,
                    ppc, mode, phases >>
    /\ UNCHANGED << geoip, file_lines >>

\* run_enrichment returns: enrich_data is through its rows, or shutdown was
\* set and the task was cancelled
PEnrichEnd ==
    /\ ppc = "enrich"
    /\ todo = << >> \/ shutdown
    /\ todo' = << >>
    /\ ppc' = "step3"
    /\ UNCHANGED << crawlVars, flushVars, node_buffer, nodes, clock,
                    accepted, storeHist, detVars, mode, phases >>
    /\ UNCHANGED << geoip, file_lines >>

\* STEP 3: run_forensics_check unless shutdown; detect_sybils runs, or its
\* connect() or its query raises and the exception leaves main_pipeline
PStep3(ok) ==
    /\ ppc = "step3"
    /\ IF ~shutdown
       THEN /\ phases' = phases \cup {"detection"}
            /\ IF ok
               THEN /\ RunDetect
                    /\ ppc' = (IF DivisionByZero(nodes) THEN "crashed"
                               ELSE "finished")
               ELSE /\ derr' = "connect"
                    /\ ppc' = "crashed"
                    /\ UNCHANGED << alerts, prevAlerts, drun, nodes, clock >>
       ELSE /\ ok
            /\ ppc' = "finished"
            /\ UNCHANGED << phases, detVars, nodes, clock >>
    /\ UNCHANGED << crawlVars, flushVars, node_buffer, accepted, storeHist,
                    mode, todo >>
    /\ UNCHANGED << geoip, file_lines >>

NextPipe ==
    \/ Next
    \/ PSignal
    \/ \E ok \in BOOLEAN : PStep1(ok)
    \/ \E ok \in BOOLEAN : RConnect(ok)
    \/ RStart
    \/ PCrawlEnd
    \/ \E ok \in BOOLEAN : PStep2(ok)
    \/ \E answer \in {"success", "fail", "error"} : PResolve(answer)
    \/ PEnrichEnd
    \/ \E ok \in BOOLEAN : PStep3(ok)

SpecPipe == InitPipe /\ [][NextPipe]_vars

\* ======================================================================
\* SpecLoad: MoneroCrawler.load_from_file on a targets.txt
\* ======================================================================
\* A line is the sequence of its characters, a host the sequence of the
\* characters it is written with.
Digits == {"1", "8"}
DigitValue(c) == IF c = "1" THEN 1 ELSE 8

\* the lines a targets.txt is made of here
SampleLines ==
    { << >>,                          \* blank
      << " " >>,                      \* white space only
      << "#", "a" >>,                 \* comment
      << " ", "#", "a" >>,            \* indented comment
      << "a" >>,                      \* host
      << "a", ":", "8", "1" >>,       \* host:port
      << " ", "a", ":", "1", " " >>,  \* host:port in white space
      << "a", ":", " ", "8" >>,       \* white space before the port
      << "a", ":", "a" >>,            \* port not a number
      << "a", ":", "8", "a" >>,       \* port with a letter
      << "a", ":" >>,                 \* port empty
      << "a", ":", "8", ":", "1" >>,  \* a second colon
      << "a", "#", "1" >>,            \* '#' inside the line
      << ":", "8" >> }                \* host empty

\* str.strip()
RECURSIVE LStrip(_)
LStrip(l) == IF l # << >> /\ Head(l) = " " THEN LStrip(Tail(l)) ELSE l
RECURSIVE RStrip(_)
RStrip(l) ==
    IF l # << >> /\ l[Len(l)] = " " THEN RStrip(SubSeq(l, 1, Len(l) - 1)) ELSE l
Strip(l) == RStrip(LStrip(l))

\* ':' in line
HasColon(l) == \E i \in DOMAIN l : l[i] = ":"

\* line.split(':')[0]: the characters before the first colon
RECURSIVE BeforeColon(_)
BeforeColon(l) ==
    IF l = << >> \/ Head(l) = ":" THEN << >>
    ELSE << Head(l) >> \o BeforeColon(Tail(l))

\* the characters after the first colon
RECURSIVE AfterColon(_)
AfterColon(l) ==
    IF l = << >> THEN << >>
    ELSE IF Head(l) = ":" THEN Tail(l) ELSE AfterColon(Tail(l))

\* the decimal value of a sequence of digits
RECURSIVE Decimal(_)
Decimal(d) ==
    IF d = << >> THEN 0 ELSE 10 * Decimal(SubSeq(d, 1, Len(d) - 1)) + DigitValue(d[Len(d)])

\* int(parts[1]) inside try/except: int strips white space and raises on
\* anything but digits, and then the port is 18080
PortOf(s) ==
    LET d == Strip(s)
    IN  IF d # << >> /\ \A i \in DOMAIN d : d[i] \in Digits
        THEN Decimal(d) ELSE DEFAULT_PORT

\* the body of the loop with a line of unparsable port skipped
LoadLine_Rejects(line) ==
    LET l == Strip(line)
    IN  IF l = << >> \/ Head(l) = "#" THEN << >>
        ELSE IF HasColon(l)
        THEN IF PortOf(BeforeColon(AfterColon(l))) = DEFAULT_PORT THEN << >>
             ELSE << << BeforeColon(l), PortOf(BeforeColon(AfterColon(l))) >> >>
        ELSE << << l, DEFAULT_PORT >> >>

\* the body of the loop: what one line puts on the queue
LoadLine(line) ==
    LET l == Strip(line)
    IN  IF l = << >> \/ Head(l) = "#" THEN << >>
        ELSE IF HasColon(l)
        THEN << << BeforeColon(l), PortOf(BeforeColon(AfterColon(l))) >> >>
        ELSE << << l, DEFAULT_PORT >> >>

\* the loop over the lines of the file
RECURSIVE LoadLines(_)
LoadLines(f) ==
    IF f = << >> THEN << >> ELSE LoadLine(Head(f)) \o LoadLines(Tail(f))

\* load_from_file: every put on the unbounded queue returns at once, so the
\* whole file is read in one step
LoadFromFile ==
    /\ file_lines # << >>
    /\ queue' = queue \o LoadLines(file_lines)
    /\ unfinished' = unfinished + Len(LoadLines(file_lines))
    /\ enqueued' = enqueued + Len(LoadLines(file_lines))
    /\ file_lines' = << >>
    /\ UNCHANGED << seen_ips, active, wpc, cur, cancelReq, spc, exitReason,
                    startCancel, shutdown, mpc, node_buffer, flushVars, nodes,
                    clock, dequeued, acked, scans, accepted, storeHist,
                    detVars, pipeVars, geoip >>

InitLoad ==
    /\ file_lines \in SeqsUpTo(SampleLines, MaxFileLines)
    /\ queue = << >>
    /\ unfinished = 0
    /\ seen_ips = {}
    /\ active = TRUE
    /\ wpc = [w \in Workers |-> "none"]
    /\ cur = [w \in Workers |-> NoTarget]
    /\ cancelReq = [w \in Workers |-> FALSE]
    /\ spc = "load"
    /\ exitReason = "none"
    /\ startCancel = FALSE
    /\ shutdown = FALSE
    /\ mpc = "wait"
    /\ node_buffer = << >>
    /\ fpc = [p \in Procs |-> "none"]
    /\ ref = [p \in Procs |-> "none"]
    /\ batch = [p \in Procs |-> << >>]
    /\ nodes = {}
    /\ clock = 1
    /\ enqueued = 0
    /\ dequeued = 0
    /\ acked = 0
    /\ scans = [h \in Hosts |-> 0]
    /\ accepted = {}
    /\ flushedIps = {}
    /\ lastWrite = [h \in Hosts |-> 0]
    /\ lastEvent = [h \in Hosts |-> NoEvent]
    /\ recommitted = FALSE
    /\ enriched = {}
    /\ alerts = << >>
    /\ prevAlerts = << >>
    /\ drun = 0
    /\ derr = "none"
    /\ ppc = "crawl"
    /\ mode = "scan"
    /\ phases = {"crawl"}
    /\ todo = << >>
    /\ geoip = LoadedHandler

NextLoad == LoadFromFile

SpecLoad == InitLoad /\ [][NextLoad]_vars

\* ======================================================================
\* Properties of the crawl run (Spec)
\* ======================================================================

\* C1: every event accepted by add_node is still in the pending buffer or has
\* been committed to the nodes table; no accepted event leaves the buffer
\* uncommitted.
C1_AtLeastOnce ==
    \A ip \in accepted : ip \in BufIps(node_buffer) \/ ip \in Ips(nodes)

\* C2: within one run scan_node is started at most once per host.
C2_ScanOnce == \A h \in Hosts : scans[h] <= 1

\* a host listed twice: its first probe failed, its second entry was skipped
C2_Witness ==
    /\ active
    /\ acked >= 2
    /\ Cardinality(seen_ips) = 1
    /\ accepted = {}
    /\ \A h \in seen_ips : scans[h] = 1

\* C3: every dequeued target is acknowledged exactly once (never more acks
\* than dequeues, the only unacknowledged targets are those a worker holds),
\* join's condition is true exactly when every enqueued target has been
\* dequeued and acknowledged, and start leaves through join only then.
C3_JoinExact ==
    /\ acked <= dequeued
    /\ enqueued = dequeued + Len(queue)
    /\ dequeued = acked + Cardinality({ w \in Workers : cur[w] # NoTarget })
    /\ (unfinished = 0) <=> (queue = << >> /\ acked = enqueued)
    /\ exitReason = "drained" => (queue = << >> /\ acked = enqueued)

\* a drained run with a successful probe, a failed probe and a skipped target
C3_Witness ==
    /\ exitReason = "drained"
    /\ accepted # {}
    /\ seen_ips \ accepted # {}
    /\ Cardinality(seen_ips) < enqueued

\* C4: when start has returned every worker task has exited.
C4_WorkersExited == spc = "returned" => \A w \in Workers : wpc[w] = "exited"

\* C5: at the step in which an add_node call returns, the pending buffer
\* holds at most BATCH_SIZE events.
C5_BoundedAfterAdd ==
    [][ \A w \in Workers :
          (wpc[w] \in {"probe", "flush"} /\ wpc'[w] = "wclose")
            => Len(node_buffer') <= BATCH_SIZE ]_vars

\* C6: the step in which a flush's write fails leaves the pending buffer as
\* it is, with the submitted events still at its head for the next flush;
\* events leave the buffer only in the step of a flush whose write succeeded.
C6_FailKeepsBuffer ==
    [][ /\ \A p \in Procs :
             (fpc[p] \in {"exec", "sent"} /\ fpc'[p] = "release"
                /\ clock' = clock)
               => /\ node_buffer' = node_buffer
                  /\ ref[p] = "live" => IsPrefix(batch[p], node_buffer')
        /\ ~IsPrefix(node_buffer, node_buffer')
             => \E p \in Procs :
                  /\ fpc[p] = "sent" /\ fpc'[p] = "release"
                  /\ nodes' = ExecuteMany(nodes, batch[p], clock)
                  /\ clock' = clock + 1 ]_vars

\* a write has failed (no batch was committed so far) and the events it
\* submitted are still the head of the buffer
C6_Witness ==
    \E p \in Procs :
      /\ fpc[p] = "release"
      /\ clock = 1
      /\ batch[p] # << >>
      /\ IsPrefix(batch[p], node_buffer)

\* ======================================================================
\* Properties of the nodes table (SpecStore)
\* ======================================================================
\* the values enrich_data's query counts as not yet resolved
Placeholders == {"", "XX", "None", "Unknown", "Unknown ISP"}

\* a row without its last_seen column
StripSeen(T) ==
    { [ ip |-> r.ip, port |-> r.port,
        protocol_version |-> r.protocol_version,
        user_agent |-> r.user_agent, asn |-> r.asn,
        isp_name |-> r.isp_name, country_code |-> r.country_code ] : r \in T }

\* C7: a committed flush never replaces the country code or the organization
\* that enrichment gave a row by a placeholder value.
C7_KeepsEnrichment ==
    [][ clock' # clock =>
          \A r \in nodes : \A r2 \in nodes' :
            (r.ip \in enriched /\ r2.ip = r.ip) =>
              /\ (r.country_code \notin Placeholders
                    => r2.country_code \notin Placeholders)
              /\ (r.isp_name \notin Placeholders
                    => r2.isp_name \notin Placeholders) ]_vars

\* C8: the table holds exactly one row per ip flushed since the table was
\* last emptied; a batch flushed into an empty table yields as many rows as
\* it has distinct ips; a flush never removes a row.
C8_OneRowPerIp ==
    /\ [] /\ Ips(nodes) = flushedIps
          /\ Cardinality(nodes) = Cardinality(flushedIps)
          /\ Cardinality(ExecuteMany({}, node_buffer, clock))
               = Cardinality(BufIps(node_buffer))
    /\ [][ clock' # clock => Ips(nodes) \subseteq Ips(nodes') ]_vars

\* two flushes were committed, the second one wrote both rows of the table
C8_Witness ==
    /\ clock = 3
    /\ Cardinality(nodes) = 2
    /\ \A r \in nodes : r.last_seen = 2

\* C9: last_seen of a row never decreases, and it always equals the write
\* time of the latest committed event for the row's ip.
C9_LastSeen ==
    /\ [](\A r \in nodes : r.last_seen = lastWrite[r.ip])
    /\ [][ \A r \in nodes : \A r2 \in nodes' :
             r2.ip = r.ip => r2.last_seen >= r.last_seen ]_vars

\* a row inserted by one event and refreshed by a later one, enriched, with
\* a further event for its ip waiting in the buffer
C9_Witness ==
    \E r \in nodes :
      /\ r.last_seen = 2
      /\ r.port # lastEvent[r.ip].port
      /\ r.ip \in enriched
      /\ r.ip \in BufIps(node_buffer)

\* C10: committing the pending batch a second time, or committing it after an
\* overlapping flush has committed a prefix of it, leaves the same rows with
\* the same values, last_seen apart, as committing it once.
C10_Idempotent ==
    \A k \in 1..Len(node_buffer) :
      LET b == node_buffer
          a == SubSeq(b, 1, k)
      IN  StripSeen(ExecuteMany(ExecuteMany(nodes, a, clock), b, clock + 1))
            = StripSeen(ExecuteMany(nodes, b, clock))

\* a batch has been committed twice and a further batch is pending on a
\* table that holds a row for one of its ips
C10_Witness ==
    /\ recommitted
    /\ BufIps(node_buffer) \cap Ips(nodes) # {}
    /\ Len(node_buffer) >= 2

\* ======================================================================
\* Properties of start and run_crawler (Spec, SpecLive)
\* ======================================================================

\* C11: start always returns: the wait on the queue ends when the queue is
\* drained or when the deadline elapses, and the deadline needs no worker to
\* dequeue a target or to finish a probe.
C11_StartReturns == <>(spc = "returned")

\* start returned on the deadline with a target never dequeued, a probe still
\* in flight and no probe succeeded
C11_Witness ==
    /\ spc = "returned"
    /\ exitReason = "timeout"
    /\ queue # << >>
    /\ unfinished > 0
    /\ accepted = {}
    /\ \E w \in Workers : wpc[w] = "probe"

\* C12: whenever start has returned (queue drained, deadline elapsed or
\* cancelled by run_crawler), the active flag is cleared and every worker
\* that had not exited has been sent cancel(): each worker is either still
\* holding the undelivered cancel or has exited.
C12_StoppedOnReturn ==
    spc = "returned" =>
      /\ ~active
      /\ \A w \in Workers : cancelReq[w] \/ wpc[w] = "exited"

\* start cancelled from run_crawler while a worker is inside a probe
C12_Witness ==
    /\ spc = "returned"
    /\ exitReason = "cancelled"
    /\ \E w \in Workers : cancelReq[w] /\ wpc[w] = "probe"

\* C13: a shutdown raised before any probe has succeeded still ends
\* run_crawler: once run_crawler has cancelled the crawl, it reaches the end
\* of close() (unless a probe succeeds meanwhile), and with no accepted event
\* the final flush and close() return on the empty buffer without acquiring
\* a connection, without writing to the store and without an error.
C13_EarlyShutdown ==
    /\ [](accepted = {} =>
            /\ mpc # "failed"
            /\ fpc[Main] = "none"
            /\ nodes = {} /\ clock = 1)
    /\ []((shutdown /\ mpc = "await_crawler")
            => <>(mpc = "done" \/ accepted # {}))

\* shutdown raised with every target still queued: the crawl was cancelled
\* and run_crawler closed the store
C13_Witness ==
    /\ mpc = "done"
    /\ shutdown
    /\ exitReason = "cancelled"
    /\ queue # << >>
    /\ dequeued = 0
    /\ accepted = {}

RunOutcome ==
    IF mpc = "done" THEN "returned"
    ELSE IF mpc = "failed" THEN "raised"
    ELSE "running"

\* C20: when the flushes fail through the end of the run, so that
\* run_crawler ends with accepted events still unwritten in the buffer, what
\* main_pipeline receives differs from the plain return of a successful run.
C20_DegradedReported ==
    (mpc \in {"done", "failed"} /\ node_buffer # << >>)
      => RunOutcome # "returned"

\* C22: a probe that fails appends no event and accepts none, leaves the
\* queue as it is (the target is acknowledged, not put back, and its host
\* stays marked as seen), sends its worker back to the head of the loop and
\* leaves start and run_crawler where they are; a run without a successful
\* probe never raises and ends with an empty buffer and an empty table.
C22_FailedProbe ==
    /\ [][ \A w \in Workers :
             (wpc[w] = "probe" /\ ~cancelReq[w] /\ wpc'[w] \in {"get", "exited"})
             => /\ node_buffer' = node_buffer
                /\ accepted' = accepted
                /\ queue' = queue
                /\ enqueued' = enqueued
                /\ seen_ips' = seen_ips
                /\ cur[w][1] \in seen_ips
                /\ acked' = acked + 1
                /\ wpc'[w] = (IF active THEN "get" ELSE "exited")
                /\ spc' = spc /\ mpc' = mpc ]_vars
    /\ [](accepted = {} => mpc # "failed" /\ node_buffer = << >> /\ nodes = {})

\* both probes of a run failed, the queue drained and run_crawler closed the
\* store on an empty buffer
C22_Witness ==
    /\ mpc = "done"
    /\ exitReason = "drained"
    /\ accepted = {}
    /\ scans["10.0.0.1"] = 1 /\ scans["10.0.0.2"] = 1
    /\ acked = enqueued
    /\ node_buffer = << >>

\* C25: when an executemany returns and its flush clears the buffer, every
\* buffered event that was not in the batch this flush committed is still
\* in the buffer afterwards.
C25_RemovesOnlyBatch ==
    [][ \A p \in Procs :
          (fpc[p] = "sent" /\ fpc'[p] = "release" /\ clock' = clock + 1)
          => \A i \in DOMAIN node_buffer :
               node_buffer[i].ip \notin BufIps(batch[p])
               => node_buffer[i].ip \in BufIps(node_buffer') ]_vars

\* ======================================================================
\* Properties of detect_sybils (SpecDetect)
\* ======================================================================
\* the organization and the count of every alert of the last run
Reported(a) == { [isp_name |-> a[i].isp_name, cnt |-> a[i].cnt] : i \in DOMAIN a }

\* the number of rows of organization o in the table
RowsOf(o) == Cardinality({ r \in nodes : r.isp_name = o })

\* C14: a run reports exactly the organizations that hold strictly more than
\* 5 rows and strictly more than 20 percent of all rows, each once and with
\* its row count; an organization of exactly 5 rows or of exactly 20 percent
\* is not reported.
C14_ExactGroups ==
    (drun > 0 /\ derr = "none") =>
      LET big == { o \in DetectOrgs \cup SkewedOrgs :
                     /\ RowsOf(o) > 5
                     /\ 100 * RowsOf(o) > 20 * Cardinality(nodes) }
      IN  /\ Reported(alerts) = { [isp_name |-> o, cnt |-> RowsOf(o)] : o \in big }
          /\ Len(alerts) = Cardinality(big)

\* a run on 30 rows: the organization of 6 rows (exactly 20 percent) is not
\* reported, the two of 12 rows are
C14_Witness ==
    /\ drun > 0
    /\ derr = "none"
    /\ Cardinality(nodes) = 30
    /\ \E o \in DetectOrgs : RowsOf(o) = 6
    /\ Len(alerts) = 2

\* C15: the alerts of one run come in non-increasing order of their share of
\* the table.
C15_Ordered ==
    \A i, j \in DOMAIN alerts :
      i < j => alerts[i].cnt * alerts[j].full_count
                 >= alerts[j].cnt * alerts[i].full_count

\* three alerts of three different shares
C15_Witness ==
    /\ Len(alerts) = 3
    /\ alerts[1].cnt > alerts[2].cnt
    /\ alerts[2].cnt > alerts[3].cnt

\* C16: a run on the empty table prints no alert and raises no
\* division_by_zero: no group exists, so the division by the total is not
\* evaluated.
C16_EmptyTable ==
    (drun > 0 /\ nodes = {}) =>
      /\ alerts = << >>
      /\ derr # "division_by_zero"

\* a run on the empty table has returned
C16_Witness ==
    /\ drun > 0
    /\ nodes = {}
    /\ derr = "none"

\* C17: a run of detect_sybils, the flush of its close() included, leaves the
\* nodes table as it was, and two runs in a row report the same groups.
C17_ReadOnly ==
    /\ [][drun' # drun => nodes' = nodes]_vars
    /\ [](drun >= 2 => Reported(alerts) = Reported(prevAlerts))

\* two runs in a row reported a group while the crawl's own handle still
\* holds an unflushed event
C17_Witness ==
    /\ drun >= 2
    /\ derr = "none"
    /\ alerts # << >>
    /\ node_buffer # << >>

\* ======================================================================
\* Properties of main_pipeline (SpecPipe)
\* ======================================================================

\* C19: once the connect() of run_crawler has failed, no worker exists, no
\* target has been loaded or probed, the error is on its way out of
\* main_pipeline, and neither enrichment nor detection is ever started.
C19_ConnectFailAborts ==
    "connect_failed" \in phases =>
      /\ \A w \in Workers : wpc[w] = "none"
      /\ spc = "none"
      /\ enqueued = 0 /\ dequeued = 0
      /\ \A h \in Hosts : scans[h] = 0
      /\ (ppc = "crawl" /\ mpc = "failed") \/ ppc = "crashed"
      /\ phases \cap {"workers", "enrichment", "detection"} = {}
      /\ drun = 0

\* the failed connect has ended main_pipeline with its exception
C19_Witness ==
    /\ "connect_failed" \in phases
    /\ ppc = "crashed"
    /\ mpc = "failed"

\* ======================================================================
\* Properties of the resolver in a crawl run (SpecResolve)
\* ======================================================================
\* the resolver has no organization for ip: no ASN database, or the lookup
\* raises
NoOrganization(ip) == ~geoip.asn_reader \/ AsnLookup(ip) = "raises"

\* the resolver has no country for ip
NoCountry(ip) == ~geoip.city_reader \/ CityLookup(ip) = "raises"

\* C21: every event a successful probe handed to the store for an ip the
\* resolver has no organization (no country) for carries the placeholder
\* organization "Unknown ISP" (the placeholder country "XX").
C21_Placeholders ==
    \A i \in DOMAIN node_buffer :
      /\ NoOrganization(node_buffer[i].ip) => node_buffer[i].isp = "Unknown ISP"
      /\ NoCountry(node_buffer[i].ip) => node_buffer[i].country = "XX"

\* the detector was started in a pipeline that ran the crawl
DetectionAfterCrawl == "detection" \in phases /\ "crawl" \in phases

\* C23: when the detector runs after a crawl, run_crawler has returned from
\* the final flush and from close(), start has returned, no task is inside
\* flush_buffer, every worker has exited or holds its undelivered cancel,
\* and no event of the run is left unflushed in the buffer.
C23_DetectAfterCrawl ==
    DetectionAfterCrawl =>
      /\ mpc = "done"
      /\ spc = "returned"
      /\ \A p \in Procs : fpc[p] = "none"
      /\ \A w \in Workers : wpc[w] = "exited" \/ cancelReq[w]
      /\ node_buffer = << >>

\* ======================================================================
\* Properties of load_from_file (SpecLoad)
\* ======================================================================
\* what the target list asks for, line by line: nothing for a blank line or
\* a comment, else the host with its port, 18080 where the line has no port
\* or one that is not a number
Wanted(line) ==
    CASE line \in { << >>, << " " >>, << "#", "a" >>, << " ", "#", "a" >> }
           -> << >>
      [] line = << "a" >>                     -> << << << "a" >>, 18080 >> >>
      [] line = << "a", ":", "8", "1" >>      -> << << << "a" >>, 81 >> >>
      [] line = << " ", "a", ":", "1", " " >> -> << << << "a" >>, 1 >> >>
      [] line = << "a", ":", " ", "8" >>      -> << << << "a" >>, 8 >> >>
      [] line = << "a", ":", "a" >>           -> << << << "a" >>, 18080 >> >>
      [] line = << "a", ":", "8", "a" >>      -> << << << "a" >>, 18080 >> >>
      [] line = << "a", ":" >>                -> << << << "a" >>, 18080 >> >>
      [] line = << "a", ":", "8", ":", "1" >> -> << << << "a" >>, 8 >> >>
      [] line = << "a", "#", "1" >>           -> << << << "a", "#", "1" >>, 18080 >> >>
      [] line = << ":", "8" >>                -> << << << >>, 8 >> >>

RECURSIVE WantedAll(_)
WantedAll(f) == IF f = << >> THEN << >> ELSE Wanted(Head(f)) \o WantedAll(Tail(f))

\* C24: load_from_file appends to the queue, in file order, exactly one
\* target for every line that is neither blank nor a comment, with port
\* 18080 for a line without a port or with a port that is not a number, and
\* nothing for the other lines.
C24_LoadTargets ==
    [][file_lines' # file_lines => queue' = queue \o WantedAll(file_lines)]_vars

\* a file of a comment and a line with an unparsable port was loaded
C24_Witness ==
    /\ file_lines = << >>
    /\ queue = << << << "a" >>, 18080 >>, << << "a" >>, 81 >> >>

\* C26: from the moment run_crawler has wiped the table and started the
\* crawl, every row of the nodes table has the ip of a host whose probe
\* succeeded in this run; a host whose probe failed, that was skipped as a
\* duplicate or that was never dequeued has no row.
C26_RowsFromProbes ==
    "workers" \in phases => Ips(nodes) \subseteq accepted

\* the run has ended with a row for the host that answered and none for the
\* host whose probe failed
C26_Witness ==
    /\ mpc = "done"
    /\ "10.0.0.1" \in Ips(nodes)
    /\ scans["10.0.0.2"] = 1
    /\ "10.0.0.2" \notin accepted
    /\ "10.0.0.2" \notin Ips(nodes)

\* C27: a committed batch leaves port and country_code of every row that
\* already existed for one of its ips as they were and rewrites last_seen,
\* protocol_version, user_agent, asn and isp_name from the latest event of
\* the batch for that ip; rows of ips outside the batch stay as they were.
C27_UpsertFrame ==
    [][ clock' = clock + 1 =>
          \A r \in nodes :
            IF lastWrite'[r.ip] = lastWrite[r.ip]
            THEN r \in nodes'
            ELSE \E r2 \in nodes' :
                   /\ r2.ip = r.ip
                   /\ r2.port = r.port
                   /\ r2.country_code = r.country_code
                   /\ r2.last_seen = clock
                   /\ r2.protocol_version = lastEvent'[r.ip].version
                   /\ r2.user_agent = lastEvent'[r.ip].user_agent
                   /\ r2.asn = lastEvent'[r.ip].asn
                   /\ r2.isp_name = lastEvent'[r.ip].isp ]_vars

\* a second batch has rewritten the row of one ip from an event with another
\* port and country, and the row of an ip outside that batch is untouched
C27_Witness ==
    \E r \in nodes, q \in nodes :
      /\ r.last_seen = 2
      /\ r.port # lastEvent[r.ip].port
      /\ r.country_code # lastEvent[r.ip].country
      /\ r.isp_name = lastEvent[r.ip].isp
      /\ q.ip # r.ip
      /\ q.last_seen = 1

\* the phases main_pipeline starts behind a test of shutdown_event
GuardedPhases == {"crawl", "enrichment", "detection"}

\* C28: once shutdown is set, no step starts the crawl, enrichment or
\* detection, and detect_sybils is not run. Neither enrichment nor detection
\* has started while the crawl is on, nor detection while enrichment is on,
\* so a shutdown set in the crawl skips both and one set in enrichment skips
\* detection. A crawl aborted by shutdown goes on only once start has
\* returned, into the final flush and close(), and the pipeline goes on
\* after a crawl only with close() finished.
C28_ShutdownSkips ==
    /\ [][ shutdown =>
             /\ phases' \cap GuardedPhases = phases \cap GuardedPhases
             /\ drun' = drun
             /\ alerts' = alerts ]_vars
    /\ [](ppc \in {"step1", "crawl"} =>
            phases \cap {"enrichment", "detection"} = {})
    /\ [](ppc \in {"step2", "enrich"} => "detection" \notin phases)
    /\ [][ mpc = "await_crawler" /\ mpc' # mpc =>
             /\ spc = "returned"
             /\ ~active
             /\ mpc' \in {"final_flush", "pool_close"} ]_vars
    /\ [](mpc = "await_crawler" => shutdown /\ ppc = "crawl")
    /\ []("workers" \in phases /\ ppc \notin {"crawl", "crashed"} =>
            mpc = "done" /\ fpc[Main] = "none")

\* shutdown was set while the crawl was waiting with a target still queued
\* and an event buffered: the crawl was cancelled, the final flush wrote the
\* event, close() returned and the pipeline finished without enrichment and
\* detection
C28_Witness ==
    /\ ppc = "finished"
    /\ shutdown
    /\ exitReason = "cancelled"
    /\ mpc = "done"
    /\ queue # << >>
    /\ nodes # {}
    /\ node_buffer = << >>
    /\ phases = {"crawl", "workers"}
    /\ drun = 0

\* C29: a row that carries the mark of a failed lookup (country_code
\* 'Unknown', isp_name 'Private') is not among the rows enrich_data selects.
C29_MarkedNotRetried ==
    \A r \in nodes :
      (r.country_code = "Unknown" /\ r.isp_name = "Private")
        => r.ip \notin EnrichSelect(nodes)

====
